---- MODULE Spec2Model ----
(***************************************************************************)
(* Reply tree and vote ledger of the Chatroom backend.                     *)
(*                                                                         *)
(* The vote ledger is the votes table written by crud/vote.py and reached  *)
(* through routers/votes.py; the reply tree is the replies table written   *)
(* by crud/reply.py and navigated by the properties of models.Reply.       *)
(* NULL columns and absent optional arguments are written 0 (None).        *)
(***************************************************************************)
EXTENDS Integers, Sequences, FiniteSets, TLC

\* ------------------------------------------------------------------------
\* Bounds of the model
\* ------------------------------------------------------------------------
MaxCasts == 4
MaxConcCasts == 3
MaxReplies == 4
MaxDeepReplies == 12
MaxMixedReplies == 2
MaxMixedCasts == 1
MaxTicks == 3
MaxTimedReplies == 2
MaxRaceReplies == 3
MaxTreeReplies == 3
MaxRemovalReplies == 2
MaxRemovals == 3

\* ------------------------------------------------------------------------
\* Program constants and fixed collaborators
\* ------------------------------------------------------------------------
MAX_DEPTH == 10

None == 0
Users == {1, 2}
Posts == {1, 2}
VoteTypes == {"upvote", "downvote"}
Workers == {1, 2}

\* request inputs: ids that exist and ids that do not
PostIdInputs == {1, 3}
ReplyIdInputs == {1, 2}

VARIABLES
    votes,       \* rows of the votes table
    nextVoteId,  \* next value of the votes.id sequence
    replies,     \* rows of the replies table; replies[i].id = i
    log,         \* completed vote requests, oldest first (history)
    vw,          \* per concurrent vote request: position and locals
    casts,       \* number of concurrent vote requests started
    lastCreate,  \* the last completed create-reply request (history)
    rw           \* per concurrent create-reply request: position and locals

vars == <<votes, nextVoteId, replies, log, vw, casts, lastCreate, rw>>

\* ------------------------------------------------------------------------
\* Vote rows
\* ------------------------------------------------------------------------
NoVote == [id |-> None, user_id |-> None, post_id |-> None, reply_id |-> None,
           vote_type |-> "none"]

Vote(id, user_id, post_id, reply_id, vote_type) ==
    [id |-> id, user_id |-> user_id, post_id |-> post_id,
     reply_id |-> reply_id, vote_type |-> vote_type]

\* UniqueConstraint(user_id, post_id) and UniqueConstraint(user_id, reply_id):
\* a NULL column never conflicts.
UniqueOkAlways(vs, row) == TRUE

UniqueOk(vs, row) ==
    /\ row.post_id # None =>
         ~ \E v \in vs : v.user_id = row.user_id /\ v.post_id = row.post_id
    /\ row.reply_id # None =>
         ~ \E v \in vs : v.user_id = row.user_id /\ v.reply_id = row.reply_id

\* CheckConstraint vote_target_constraint
vote_target_constraint(row) ==
    \/ row.post_id # None /\ row.reply_id = None
    \/ row.post_id = None /\ row.reply_id # None

\* the lookup by target alone, the user filter left out
get_user_vote_any_user(vs, user_id, post_id, reply_id) ==
    IF post_id # None
    THEN IF \E v \in vs : v.post_id = post_id
         THEN CHOOSE v \in vs : v.post_id = post_id
         ELSE NoVote
    ELSE IF reply_id # None
    THEN IF \E v \in vs : v.reply_id = reply_id
         THEN CHOOSE v \in vs : v.reply_id = reply_id
         ELSE NoVote
    ELSE NoVote

get_user_vote(vs, user_id, post_id, reply_id) ==
    IF post_id # None
    THEN IF \E v \in vs : v.user_id = user_id /\ v.post_id = post_id
         THEN CHOOSE v \in vs : v.user_id = user_id /\ v.post_id = post_id
         ELSE NoVote
    ELSE IF reply_id # None
    THEN IF \E v \in vs : v.user_id = user_id /\ v.reply_id = reply_id
         THEN CHOOSE v \in vs : v.user_id = user_id /\ v.reply_id = reply_id
         ELSE NoVote
    ELSE NoVote

\* ------------------------------------------------------------------------
\* create_vote, in its two halves: the reads up to get_user_vote (lines
\* 10-30) and the write decided from what was read (lines 32-55).
\* ------------------------------------------------------------------------
ReadResult(error, existing) == [error |-> error, existing |-> existing]

\* the reads with the exactly-one-target test left out
create_vote_read_any_target(vs, rs, user_id, vote_type, post_id, reply_id) ==
    IF vote_type \notin VoteTypes
    THEN ReadResult("Invalid vote type", NoVote)
    ELSE IF post_id # None /\ post_id \notin Posts
    THEN ReadResult("Post not found", NoVote)
    ELSE IF reply_id # None /\ reply_id \notin 1..Len(rs)
    THEN ReadResult("Reply not found", NoVote)
    ELSE ReadResult("", get_user_vote(vs, user_id, post_id, reply_id))

\* the reads with the vote_type test left out
create_vote_read_any_type(vs, rs, user_id, vote_type, post_id, reply_id) ==
    IF (post_id = None /\ reply_id = None)
       \/ (post_id # None /\ reply_id # None)
    THEN ReadResult("Vote must target exactly one post or reply", NoVote)
    ELSE IF post_id # None /\ post_id \notin Posts
    THEN ReadResult("Post not found", NoVote)
    ELSE IF reply_id # None /\ reply_id \notin 1..Len(rs)
    THEN ReadResult("Reply not found", NoVote)
    ELSE ReadResult("", get_user_vote(vs, user_id, post_id, reply_id))

create_vote_read(vs, rs, user_id, vote_type, post_id, reply_id) ==
    IF vote_type \notin VoteTypes
    THEN ReadResult("Invalid vote type", NoVote)
    ELSE IF (post_id = None /\ reply_id = None)
            \/ (post_id # None /\ reply_id # None)
    THEN ReadResult("Vote must target exactly one post or reply", NoVote)
    ELSE IF post_id # None /\ post_id \notin Posts
    THEN ReadResult("Post not found", NoVote)
    ELSE IF reply_id # None /\ reply_id \notin 1..Len(rs)
    THEN ReadResult("Reply not found", NoVote)
    ELSE ReadResult("", get_user_vote(vs, user_id, post_id, reply_id))

WriteResult(vs, nid, branch, raised, vote) ==
    [votes |-> vs, nextVoteId |-> nid, branch |-> branch, raised |-> raised,
     vote |-> vote]

\* the delete branch with the DELETE statement left out
delete_branch_keeps_row(vs, nid, existing) ==
    WriteResult(vs, nid, "delete", "", NoVote)

\* the delete branch removing every voter's row on the target
delete_branch_whole_target(vs, nid, existing) ==
    WriteResult({v \in vs : v.post_id # existing.post_id
                              \/ v.reply_id # existing.reply_id},
                nid, "delete", "", NoVote)

delete_branch(vs, nid, existing) ==
    WriteResult({v \in vs : v.id # existing.id}, nid, "delete", "", NoVote)

\* the update branch inserting a second row instead of updating in place
update_branch_new_row(vs, nid, existing, vote_type) ==
    LET row == Vote(nid, existing.user_id, existing.post_id,
                    existing.reply_id, vote_type)
    IN  WriteResult(vs \cup {row}, nid + 1, "update", "", row)

update_branch(vs, nid, existing, vote_type) ==
    IF \E v \in vs : v.id = existing.id
    THEN LET row == [existing EXCEPT !.vote_type = vote_type]
         IN  WriteResult({v \in vs : v.id # existing.id} \cup {row}, nid,
                         "update", "", row)
    ELSE WriteResult(vs, nid, "update", "StaleDataError", NoVote)

\* the insert branch storing the opposite polarity
insert_branch_flipped(vs, nid, user_id, vote_type, post_id, reply_id) ==
    LET other == IF vote_type = "upvote" THEN "downvote" ELSE "upvote"
        row == Vote(nid, user_id, post_id, reply_id, other)
    IN  WriteResult(vs \cup {row}, nid + 1, "insert", "", row)

insert_branch(vs, nid, user_id, vote_type, post_id, reply_id) ==
    LET row == Vote(nid, user_id, post_id, reply_id, vote_type)
    IN  IF UniqueOk(vs, row) /\ vote_target_constraint(row)
        THEN WriteResult(vs \cup {row}, nid + 1, "insert", "", row)
        ELSE WriteResult(vs, nid, "insert", "IntegrityError", NoVote)

\* a plain upsert: an existing row is overwritten, never removed
create_vote_upsert(vs, nid, existing, user_id, vote_type, post_id, reply_id) ==
    IF existing # NoVote
    THEN update_branch(vs, nid, existing, vote_type)
    ELSE insert_branch(vs, nid, user_id, vote_type, post_id, reply_id)

create_vote_write(vs, nid, existing, user_id, vote_type, post_id, reply_id) ==
    IF existing # NoVote
    THEN IF existing.vote_type = vote_type
         THEN delete_branch(vs, nid, existing)
         ELSE update_branch(vs, nid, existing, vote_type)
    ELSE insert_branch(vs, nid, user_id, vote_type, post_id, reply_id)

create_vote(vs, nid, rs, user_id, vote_type, post_id, reply_id) ==
    LET rd == create_vote_read(vs, rs, user_id, vote_type, post_id, reply_id)
    IN  IF rd.error # ""
        THEN WriteResult(vs, nid, "none", "ValueError", NoVote)
        ELSE create_vote_write(vs, nid, rd.existing, user_id, vote_type,
                               post_id, reply_id)

\* ------------------------------------------------------------------------
\* Aggregation
\* ------------------------------------------------------------------------
Counts(up, down) ==
    [upvote_count |-> up, downvote_count |-> down,
     net_votes |-> up - down, total_votes |-> up + down]

\* the post counts taken over the whole table, the post filter left out
get_vote_counts_unfiltered(vs, post_id) ==
    Counts(Cardinality({v \in vs : v.vote_type = "upvote"}),
           Cardinality({v \in vs : v.vote_type = "downvote"}))

get_vote_counts_for_post(vs, post_id) ==
    LET vts == {v \in vs : v.post_id = post_id}
    IN  Counts(Cardinality({v \in vts : v.vote_type = "upvote"}),
               Cardinality({v \in vts : v.vote_type = "downvote"}))

get_vote_counts_for_reply(vs, reply_id) ==
    LET vts == {v \in vs : v.reply_id = reply_id}
    IN  Counts(Cardinality({v \in vts : v.vote_type = "upvote"}),
               Cardinality({v \in vts : v.vote_type = "downvote"}))

\* models.py: Post.upvote_count, Reply.upvote_count and the properties
\* built on them compare the vote_type loaded from a row, a member of the
\* plain enum.Enum VoteType, with VoteType.upvote.value, a str; such a
\* member equals no str
member_eq_str(vote_type, value) == FALSE

Post_counts(vs, post_id) ==
    LET vts == {v \in vs : v.post_id = post_id}
    IN  Counts(Cardinality({v \in vts : member_eq_str(v.vote_type, "upvote")}),
               Cardinality({v \in vts : member_eq_str(v.vote_type, "downvote")}))

Reply_counts(vs, reply_id) ==
    LET vts == {v \in vs : v.reply_id = reply_id}
    IN  Counts(Cardinality({v \in vts : member_eq_str(v.vote_type, "upvote")}),
               Cardinality({v \in vts : member_eq_str(v.vote_type, "downvote")}))

CountsFor(vs, post_id, reply_id) ==
    IF post_id # None THEN get_vote_counts_for_post(vs, post_id)
    ELSE get_vote_counts_for_reply(vs, reply_id)

\* ------------------------------------------------------------------------
\* routers/votes.py: vote_on_post and vote_on_reply.  The 404 is raised
\* inside the try block, whose last handler catches every Exception.
\* ------------------------------------------------------------------------
Response(status, kind, vote, previous_vote_type, detail) ==
    [status |-> status, kind |-> kind, vote |-> vote,
     previous_vote_type |-> previous_vote_type, detail |-> detail]

NoResponse == Response(0, "none", NoVote, "none", "")

vote_response(wr, vote_type) ==
    IF wr.raised = "ValueError"
    THEN Response(400, "error", NoVote, "none", "ValueError")
    ELSE IF wr.raised # ""
    THEN Response(500, "error", NoVote, "none", "Failed to process vote")
    ELSE IF wr.vote = NoVote
    THEN Response(200, "removed", NoVote, vote_type, "Vote removed")
    ELSE Response(200, "vote", wr.vote, "none", "")

\* routers/votes.py: get_user_vote_on_post and get_user_vote_on_reply
vote_found(vote) ==
    IF vote = NoVote
    THEN Response(404, "error", NoVote, "none", "Vote not found")
    ELSE Response(200, "vote", vote, "none", "")

get_user_vote_on_post(vs, post_id, user_id) ==
    vote_found(get_user_vote(vs, user_id, post_id, None))

get_user_vote_on_reply(vs, reply_id, user_id) ==
    vote_found(get_user_vote(vs, user_id, None, reply_id))

\* vote_data: VoteCreate is validated before the handler body runs
request_invalid(vs, nid) ==
    [write |-> WriteResult(vs, nid, "none", "RequestValidationError", NoVote),
     resp |-> Response(422, "error", NoVote, "none",
                       "Unprocessable Entity")]

target_missing(vs, nid) ==
    [write |-> WriteResult(vs, nid, "none", "HTTPException", NoVote),
     resp |-> Response(500, "error", NoVote, "none", "Failed to process vote")]

vote_on_post(vs, nid, rs, post_id, user_id, vote_type) ==
    IF vote_type \notin VoteTypes
    THEN request_invalid(vs, nid)
    ELSE IF post_id \notin Posts
    THEN target_missing(vs, nid)
    ELSE LET wr == create_vote(vs, nid, rs, user_id, vote_type, post_id, None)
         IN  [write |-> wr, resp |-> vote_response(wr, vote_type)]

vote_on_reply(vs, nid, rs, reply_id, user_id, vote_type) ==
    IF vote_type \notin VoteTypes
    THEN request_invalid(vs, nid)
    ELSE IF reply_id \notin 1..Len(rs)
    THEN target_missing(vs, nid)
    ELSE LET wr == create_vote(vs, nid, rs, user_id, vote_type, None, reply_id)
         IN  [write |-> wr, resp |-> vote_response(wr, vote_type)]

\* ------------------------------------------------------------------------
\* Reply rows
\* ------------------------------------------------------------------------
Reply(id, post_id, author_id, parent_id, now) ==
    [id |-> id, post_id |-> post_id, author_id |-> author_id,
     parent_id |-> parent_id, content |-> "a", created_at |-> now,
     updated_at |-> now, deleted_at |-> None]

\* models.Reply.is_deleted
is_deleted(reply) == reply.deleted_at # None

\* func.now(): the readings of the database clock, which never runs
\* backwards; two requests may get the same reading
Max(S) == CHOOSE x \in S : \A y \in S : y <= x

Latest(rs) ==
    Max({0} \cup {rs[i].created_at : i \in 1..Len(rs)}
            \cup {rs[i].updated_at : i \in 1..Len(rs)}
            \cup {rs[i].deleted_at : i \in 1..Len(rs)})

Later(rs) == Latest(rs) + 1

\* a clock that advances with every write until it reads MaxTicks
Now(rs) == IF Latest(rs) < MaxTicks THEN Later(rs) ELSE Latest(rs)

\* a clock that may or may not have advanced since the last write
Ticks(rs) ==
    IF rs = <<>> THEN {1} ELSE {Latest(rs), Now(rs)}

is_edited(rs, id) == rs[id].updated_at > rs[id].created_at

\* models.Reply: the parent relationship and the properties walking it
RECURSIVE depth(_, _)
depth(rs, id) ==
    IF rs[id].parent_id = None THEN 0
    ELSE depth(rs, rs[id].parent_id) + 1

\* the parent taken as the root, without walking further
thread_root_one_step(rs, id) ==
    IF rs[id].parent_id = None THEN id ELSE rs[id].parent_id

RECURSIVE thread_root(_, _)
thread_root(rs, id) ==
    IF rs[id].parent_id = None THEN id
    ELSE thread_root(rs, rs[id].parent_id)

\* the walk collecting the chain from the root down
RECURSIVE ancestors_root_first(_, _)
ancestors_root_first(rs, id) ==
    IF rs[id].parent_id = None THEN <<>>
    ELSE ancestors_root_first(rs, rs[id].parent_id) \o <<rs[id].parent_id>>

\* the walk stopping at a soft-deleted parent
RECURSIVE ancestors_not_deleted(_, _)
ancestors_not_deleted(rs, id) ==
    IF rs[id].parent_id = None \/ is_deleted(rs[rs[id].parent_id]) THEN <<>>
    ELSE <<rs[id].parent_id>> \o ancestors_not_deleted(rs, rs[id].parent_id)

RECURSIVE ancestors(_, _)
ancestors(rs, id) ==
    IF rs[id].parent_id = None THEN <<>>
    ELSE <<rs[id].parent_id>> \o ancestors(rs, rs[id].parent_id)

\* the depth test admitting one more level
can_reply_to_inclusive(rs, id) == depth(rs, id) <= MAX_DEPTH

can_reply_to(rs, id) == depth(rs, id) < MAX_DEPTH

\* crud/reply.py
get_reply_by_id(rs, reply_id) ==
    IF reply_id \in 1..Len(rs) /\ ~is_deleted(rs[reply_id])
    THEN reply_id ELSE None

\* the parent looked up without the same-post condition
parent_reply_any_post(rs, parent_id, post_id) ==
    IF parent_id \in 1..Len(rs) /\ ~is_deleted(rs[parent_id])
    THEN parent_id ELSE None

\* the parent looked up without the not-deleted condition
parent_reply_with_deleted(rs, parent_id, post_id) ==
    IF parent_id \in 1..Len(rs) /\ rs[parent_id].post_id = post_id
    THEN parent_id ELSE None

parent_reply(rs, parent_id, post_id) ==
    IF /\ parent_id \in 1..Len(rs)
       /\ rs[parent_id].post_id = post_id
       /\ ~is_deleted(rs[parent_id])
    THEN parent_id ELSE None

create_reply_check(rs, post_id, author_id, parent_id) ==
    IF post_id \notin Posts THEN "Post not found"
    ELSE IF author_id \notin Users THEN "Author not found"
    ELSE IF parent_id # None /\ parent_reply(rs, parent_id, post_id) = None
    THEN "Parent reply not found"
    ELSE IF parent_id # None /\ ~can_reply_to(rs, parent_id)
    THEN "Maximum reply depth exceeded"
    ELSE ""

\* the new row built without its parent_id
db_reply_without_parent(rs, now, post_id, author_id, parent_id) ==
    Reply(Len(rs) + 1, post_id, author_id, None, now)

\* the new row of a reply to a reply naming itself as its parent
db_reply_own_parent(rs, now, post_id, author_id, parent_id) ==
    Reply(Len(rs) + 1, post_id, author_id,
          IF parent_id # None THEN Len(rs) + 1 ELSE None, now)

db_reply(rs, now, post_id, author_id, parent_id) ==
    Reply(Len(rs) + 1, post_id, author_id, parent_id, now)

\* an insert refused when the parent already has a child
create_reply_insert_first_child(rs, now, post_id, author_id, parent_id) ==
    IF parent_id # None /\ \E i \in 1..Len(rs) : rs[i].parent_id = parent_id
    THEN rs
    ELSE Append(rs, db_reply(rs, now, post_id, author_id, parent_id))

create_reply_insert(rs, now, post_id, author_id, parent_id) ==
    Append(rs, db_reply(rs, now, post_id, author_id, parent_id))

\* the commit's UPDATE sets deleted_at and, by onupdate, updated_at; the
\* two clocks read are taken to agree
delete_reply(rs, now, reply_id) ==
    IF get_reply_by_id(rs, reply_id) = None THEN rs
    ELSE [rs EXCEPT ![reply_id].deleted_at = now,
                    ![reply_id].updated_at = now]

\* the commit writes the row, and with it onupdate's updated_at, only when
\* the content assigned differs from the content loaded
update_reply(rs, now, reply_id, content) ==
    IF get_reply_by_id(rs, reply_id) = None \/ rs[reply_id].content = content
    THEN rs
    ELSE [rs EXCEPT ![reply_id].content = content,
                    ![reply_id].updated_at = now]

\* rows in creation order; ids are handed out in creation order
IdSeq(rs) == [i \in 1..Len(rs) |-> i]

\* the limit of a listing asked without one
DefaultLimit == 100

\* offset(skip).limit(limit) and the Python slice [skip : skip + limit]
Slice(s, skip, limit) ==
    SubSeq(s, skip + 1, IF skip + limit < Len(s) THEN skip + limit ELSE Len(s))

\* the flat listing without the deleted_at filter
get_post_replies_with_deleted(rs, post_id, skip, limit) ==
    LET Test(i) == rs[i].post_id = post_id
    IN  Slice(SelectSeq(IdSeq(rs), Test), skip, limit)

get_post_replies(rs, post_id, skip, limit) ==
    LET Test(i) == rs[i].post_id = post_id /\ ~is_deleted(rs[i])
    IN  Slice(SelectSeq(IdSeq(rs), Test), skip, limit)

get_reply_children(rs, reply_id, skip, limit) ==
    LET Test(i) == rs[i].parent_id = reply_id /\ ~is_deleted(rs[i])
    IN  Slice(SelectSeq(IdSeq(rs), Test), skip, limit)

\* the _children_cache attributes of the reply objects a session holds:
\* the empty sequence stands for an object without the attribute
NoCache(rs) == [i \in 1..Len(rs) |-> <<>>]

\* crud/reply.py lines 26-46: the query and the loop filling the caches
all_replies(rs, post_id) ==
    LET Test(i) == rs[i].post_id = post_id /\ ~is_deleted(rs[i])
    IN  SelectSeq(IdSeq(rs), Test)

root_replies(rs, post_id) ==
    LET Test(i) == rs[i].parent_id = None
    IN  SelectSeq(all_replies(rs, post_id), Test)

children_cache(rs, cache, post_id) ==
    LET all == all_replies(rs, post_id)
        reply_dict == {all[k] : k \in 1..Len(all)}
    IN  [p \in 1..Len(rs) |->
           IF p \in reply_dict
           THEN LET Test(i) == rs[i].parent_id = p
                IN  cache[p] \o SelectSeq(all, Test)
           ELSE cache[p]]

\* a flattening that emits each reply after its cached children
RECURSIVE flatten_children_first(_, _)
flatten_children_first(cache, rs) ==
    IF rs = <<>> THEN <<>>
    ELSE flatten_children_first(cache, cache[Head(rs)]) \o <<Head(rs)>>
         \o flatten_children_first(cache, Tail(rs))

\* crud/reply.py lines 49-55; rs is the list of replies being flattened
RECURSIVE flatten_replies(_, _)
flatten_replies(cache, rs) ==
    IF rs = <<>> THEN <<>>
    ELSE <<Head(rs)>> \o flatten_replies(cache, cache[Head(rs)])
         \o flatten_replies(cache, Tail(rs))

\* the listing run in a session whose objects carry the given caches:
\* the page returned and the caches left on the objects
get_post_replies_threaded(rs, cache, post_id, skip, limit) ==
    LET filled == children_cache(rs, cache, post_id)
        threaded_replies == flatten_replies(filled, root_replies(rs, post_id))
    IN  [replies |-> Slice(threaded_replies, skip, limit), cache |-> filled]

\* models.Reply.children and the properties built on it
children(rs, id) ==
    LET Test(i) == rs[i].parent_id = id
    IN  SelectSeq(IdSeq(rs), Test)

RECURSIVE descendants_of(_, _)
descendants_of(rs, cs) ==
    IF cs = <<>> THEN <<>>
    ELSE <<Head(cs)>> \o descendants_of(rs, children(rs, Head(cs)))
         \o descendants_of(rs, Tail(cs))

\* the direct children only, without descending further
descendants_direct(rs, id) == children(rs, id)

descendants(rs, id) == descendants_of(rs, children(rs, id))

Elems(s) == {s[k] : k \in 1..Len(s)}

\* models.Post.replies: every reply row of the post
post_replies(rs, post_id) ==
    LET Test(i) == rs[i].post_id = post_id
    IN  SelectSeq(IdSeq(rs), Test)

\* the list left in the order it was collected
unsorted(rs, s) == s

\* list.sort(key=created_at): a stable sort, here by insertion of each
\* element behind those created no later
RECURSIVE sort_by_created_at(_, _)
sort_by_created_at(rs, s) ==
    IF s = <<>> THEN <<>>
    ELSE LET x == s[Len(s)]
             sorted == sort_by_created_at(rs, SubSeq(s, 1, Len(s) - 1))
             NoLater(i) == rs[i].created_at <= rs[x].created_at
             After(i) == rs[i].created_at > rs[x].created_at
         IN  SelectSeq(sorted, NoLater) \o <<x>> \o SelectSeq(sorted, After)

get_reply_thread(rs, reply_id) ==
    IF get_reply_by_id(rs, reply_id) = None THEN <<>>
    ELSE LET root_reply == thread_root(rs, reply_id)
         IN  sort_by_created_at(rs, <<root_reply>> \o descendants(rs, root_reply))

\* the list built without the reply.id != self.id condition
siblings_with_self(rs, id) ==
    IF rs[id].parent_id = None
    THEN LET Test(i) == rs[i].parent_id = None
         IN  SelectSeq(post_replies(rs, rs[id].post_id), Test)
    ELSE children(rs, rs[id].parent_id)

siblings(rs, id) ==
    IF rs[id].parent_id = None
    THEN LET Test(i) == rs[i].parent_id = None /\ i # id
         IN  SelectSeq(post_replies(rs, rs[id].post_id), Test)
    ELSE LET Test(i) == i # id
         IN  SelectSeq(children(rs, rs[id].parent_id), Test)

get_reply_siblings(rs, reply_id) ==
    IF get_reply_by_id(rs, reply_id) = None THEN <<>>
    ELSE siblings(rs, reply_id)

\* the membership test admitting the reply itself
is_ancestor_of_or_self(rs, id, other_reply) ==
    id = other_reply \/ id \in Elems(ancestors(rs, other_reply))

is_ancestor_of(rs, id, other_reply) ==
    id \in Elems(ancestors(rs, other_reply))

get_reply_ancestors(rs, reply_id) ==
    IF get_reply_by_id(rs, reply_id) = None THEN <<>>
    ELSE ancestors(rs, reply_id)

get_reply_descendants(rs, reply_id) ==
    IF get_reply_by_id(rs, reply_id) = None THEN <<>>
    ELSE descendants(rs, reply_id)

\* routers/replies.py: what a read request answers
ReadResponse(status, detail, body) ==
    [status |-> status, detail |-> detail, body |-> body]

\* get_reply_ancestors, get_reply_descendants and get_reply_siblings answer
\* 404 only when the crud function returned None; the crud functions return
\* a list on every path, so the test `is None` is never true
navigation_response(is_none, result) ==
    IF is_none THEN ReadResponse(404, "Reply not found", <<>>)
    ELSE ReadResponse(200, "", result)

ancestors_route(rs, reply_id) ==
    navigation_response(FALSE, get_reply_ancestors(rs, reply_id))

descendants_route(rs, reply_id) ==
    navigation_response(FALSE, get_reply_descendants(rs, reply_id))

siblings_route(rs, reply_id) ==
    navigation_response(FALSE, get_reply_siblings(rs, reply_id))

\* get_post_replies: the listing is returned without looking up the post
post_replies_route(rs, post_id, skip, limit, threaded) ==
    ReadResponse(200, "",
                 IF threaded
                 THEN get_post_replies_threaded(rs, NoCache(rs), post_id,
                                                skip, limit).replies
                 ELSE get_post_replies(rs, post_id, skip, limit))

\* routers/replies.py update_reply: 404 when the crud function found no
\* live reply; replies is the table the request leaves
update_reply_route(rs, now, reply_id, content) ==
    [status |-> IF get_reply_by_id(rs, reply_id) = None THEN 404 ELSE 200,
     detail |-> IF get_reply_by_id(rs, reply_id) = None
                THEN "Reply not found" ELSE "",
     replies |-> update_reply(rs, now, reply_id, content)]

\* crud/reply.py bulk_delete_replies: one UPDATE of the rows named and not
\* yet deleted, answering the number of rows it matched
bulk_delete_replies(rs, now, reply_ids) ==
    LET matched == {i \in reply_ids \cap (1..Len(rs)) : ~is_deleted(rs[i])}
    IN  [replies |-> [i \in 1..Len(rs) |->
                        IF i \in matched
                        THEN [rs[i] EXCEPT !.deleted_at = now,
                                           !.updated_at = now]
                        ELSE rs[i]],
         count |-> Cardinality(matched)]

\* routers/replies.py delete_reply and bulk_delete_replies: what a delete
\* request answers and the table it leaves
Removal(op, ids, now, before, after, status, count) ==
    [op |-> op, ids |-> ids, now |-> now, before |-> before, after |-> after,
     status |-> status, deleted_count |-> count]

\* a delete that stamps the row whether or not it is deleted already
delete_reply_route_again(rs, now, reply_id) ==
    IF reply_id \notin 1..Len(rs)
    THEN Removal("delete", {reply_id}, now, rs, rs, 404, 0)
    ELSE Removal("delete", {reply_id}, now, rs,
                 [rs EXCEPT ![reply_id].deleted_at = now,
                            ![reply_id].updated_at = now], 200, 1)

delete_reply_route(rs, now, reply_id) ==
    IF get_reply_by_id(rs, reply_id) = None
    THEN Removal("delete", {reply_id}, now, rs, rs, 404, 0)
    ELSE Removal("delete", {reply_id}, now, rs,
                 delete_reply(rs, now, reply_id), 200, 1)

bulk_delete_replies_route(rs, now, reply_ids) ==
    LET r == bulk_delete_replies(rs, now, reply_ids)
    IN  Removal("bulk", reply_ids, now, rs, r.replies, 200, r.count)

\* routers/replies.py: create_reply maps the ValueError text to a status
create_status(error) ==
    IF error = "" THEN 201
    ELSE IF error \in {"Post not found", "Author not found",
                       "Parent reply not found"} THEN 404
    ELSE 400

Created(post_id, author_id, parent_id, error, before, after) ==
    [post_id |-> post_id, author_id |-> author_id, parent_id |-> parent_id,
     status |-> create_status(error), detail |-> error,
     id |-> IF error = "" THEN Len(after) ELSE None,
     before |-> before, after |-> after]

\* ------------------------------------------------------------------------
\* One vote request served at a time
\* ------------------------------------------------------------------------
LogEntry(user_id, post_id, reply_id, vote_type, before, r) ==
    [user_id |-> user_id, post_id |-> post_id, reply_id |-> reply_id,
     vote_type |-> vote_type, before |-> before, after |-> r.write.votes,
     branch |-> r.write.branch, raised |-> r.write.raised, resp |-> r.resp]

IdleVote == [pc |-> "idle", user_id |-> None, post_id |-> None,
             reply_id |-> None, vote_type |-> "none", existing |-> NoVote,
             attempts |-> 0, raised |-> "", resp |-> NoResponse]

IdleCreate == [pc |-> "idle", post_id |-> None, author_id |-> None,
               parent_id |-> None]

NoCreate == [post_id |-> None, author_id |-> None, parent_id |-> None,
             status |-> 0, detail |-> "", id |-> None, before |-> <<>>,
             after |-> <<>>]

InitVote ==
    /\ votes = {}
    /\ nextVoteId = 1
    /\ replies = <<Reply(1, 1, 1, None, 1)>>
    /\ log = <<>>
    /\ vw = [w \in Workers |-> IdleVote]
    /\ casts = 0
    /\ lastCreate = NoCreate
    /\ rw = [w \in Workers |-> IdleCreate]

VoteOnPost(post_id, user_id, vote_type) ==
    /\ Len(log) < MaxCasts
    /\ LET r == vote_on_post(votes, nextVoteId, replies, post_id, user_id,
                             vote_type)
       IN  /\ votes' = r.write.votes
           /\ nextVoteId' = r.write.nextVoteId
           /\ log' = Append(log, LogEntry(user_id, post_id, None, vote_type,
                                          votes, r))
    /\ UNCHANGED <<replies, vw, casts, lastCreate, rw>>

VoteOnReplyWithin(max, reply_id, user_id, vote_type) ==
    /\ Len(log) < max
    /\ LET r == vote_on_reply(votes, nextVoteId, replies, reply_id, user_id,
                              vote_type)
       IN  /\ votes' = r.write.votes
           /\ nextVoteId' = r.write.nextVoteId
           /\ log' = Append(log, LogEntry(user_id, None, reply_id, vote_type,
                                          votes, r))
    /\ UNCHANGED <<replies, vw, casts, lastCreate, rw>>

VoteOnReply(reply_id, user_id, vote_type) ==
    VoteOnReplyWithin(MaxCasts, reply_id, user_id, vote_type)

\* requests naming a missing target are tried by one voter with one polarity
VoteInput(exists, user_id, vote_type) ==
    exists \/ (user_id = 1 /\ vote_type = "upvote")

NextVote ==
    \/ \E p \in PostIdInputs, u \in Users, t \in VoteTypes :
          VoteInput(p \in Posts, u, t) /\ VoteOnPost(p, u, t)
    \/ \E r \in ReplyIdInputs, u \in Users, t \in VoteTypes :
          VoteInput(r \in 1..Len(replies), u, t) /\ VoteOnReply(r, u, t)

SpecVote == InitVote /\ [][NextVote]_vars

\* ------------------------------------------------------------------------
\* create_vote called directly, with one, both or neither target
\* ------------------------------------------------------------------------
call_result(wr) ==
    [write |-> wr,
     resp |-> Response(0, IF wr.raised # "" THEN "raised"
                          ELSE IF wr.vote = NoVote THEN "removed" ELSE "vote",
                       wr.vote, "none", wr.raised)]

CreateVoteCall(user_id, vote_type, post_id, reply_id) ==
    /\ Len(log) < MaxCasts
    /\ LET r == call_result(create_vote(votes, nextVoteId, replies, user_id,
                                        vote_type, post_id, reply_id))
       IN  /\ votes' = r.write.votes
           /\ nextVoteId' = r.write.nextVoteId
           /\ log' = Append(log, LogEntry(user_id, post_id, reply_id,
                                          vote_type, votes, r))
    /\ UNCHANGED <<replies, vw, casts, lastCreate, rw>>

OneTarget(post_id, reply_id) ==
    (post_id = None) # (reply_id = None)

\* a polarity outside the enumeration, sent to create_vote and to the route
InvalidVoteTypes == {"invalid"}

NextVoteCall ==
    \/ \E u \in Users, t \in VoteTypes, p \in {None, 1}, r \in {None, 1} :
          VoteInput(OneTarget(p, r), u, t) /\ CreateVoteCall(u, t, p, r)
    \/ \E t \in InvalidVoteTypes, p \in {None} \cup PostIdInputs :
          CreateVoteCall(1, t, p, None)
    \/ \E t \in InvalidVoteTypes : VoteOnPost(1, 1, t)
    \/ \E t \in InvalidVoteTypes : VoteOnReply(1, 1, t)

SpecVoteCall == InitVote /\ [][NextVoteCall]_vars

\* ------------------------------------------------------------------------
\* Concurrent vote requests: each request has its own session, reads the
\* committed rows (router check and create_vote lines 10-30), and later
\* commits its write (create_vote lines 32-55).
\* ------------------------------------------------------------------------
VoteFailed(w, user_id, post_id, reply_id, vote_type, raised, status) ==
    [IdleVote EXCEPT !.user_id = user_id, !.post_id = post_id,
                     !.reply_id = reply_id, !.vote_type = vote_type,
                     !.raised = raised,
                     !.resp = Response(status, "error", NoVote, "none",
                                       IF status = 500
                                       THEN "Failed to process vote"
                                       ELSE raised)]

VoteRead(w, user_id, post_id, reply_id, vote_type, existing) ==
    [IdleVote EXCEPT !.pc = "read", !.user_id = user_id, !.post_id = post_id,
                     !.reply_id = reply_id, !.vote_type = vote_type,
                     !.existing = existing, !.attempts = 1]

VoteBegin(w, exists, user_id, post_id, reply_id, vote_type) ==
    /\ vw[w].pc = "idle"
    /\ casts < MaxConcCasts
    /\ casts' = casts + 1
    /\ LET rd == create_vote_read(votes, replies, user_id, vote_type, post_id,
                                  reply_id)
       IN  vw' = [vw EXCEPT ![w] =
                IF ~exists
                THEN VoteFailed(w, user_id, post_id, reply_id, vote_type,
                                "HTTPException", 500)
                ELSE IF rd.error # ""
                THEN VoteFailed(w, user_id, post_id, reply_id, vote_type,
                                "ValueError", 400)
                ELSE VoteRead(w, user_id, post_id, reply_id, vote_type,
                              rd.existing)]
    /\ UNCHANGED <<votes, nextVoteId, replies, log, lastCreate, rw>>

VoteOnPostBegin(w, post_id, user_id, vote_type) ==
    VoteBegin(w, post_id \in Posts, user_id, post_id, None, vote_type)

VoteOnReplyBegin(w, reply_id, user_id, vote_type) ==
    VoteBegin(w, reply_id \in 1..Len(replies), user_id, None, reply_id,
              vote_type)

VoteEnd(w) ==
    /\ vw[w].pc = "read"
    /\ LET wr == create_vote_write(votes, nextVoteId, vw[w].existing,
                                   vw[w].user_id, vw[w].vote_type,
                                   vw[w].post_id, vw[w].reply_id)
       IN  /\ votes' = wr.votes
           /\ nextVoteId' = wr.nextVoteId
           /\ vw' = [vw EXCEPT ![w].pc = "idle", ![w].raised = wr.raised,
                               ![w].resp = vote_response(wr, vw[w].vote_type)]
    /\ UNCHANGED <<replies, log, casts, lastCreate, rw>>

NextVoteConc ==
    \/ \E w \in Workers, p \in PostIdInputs, u \in Users, t \in VoteTypes :
          VoteInput(p \in Posts, u, t) /\ VoteOnPostBegin(w, p, u, t)
    \/ \E w \in Workers, r \in ReplyIdInputs, u \in Users, t \in VoteTypes :
          VoteInput(r \in 1..Len(replies), u, t) /\ VoteOnReplyBegin(w, r, u, t)
    \/ \E w \in Workers : VoteEnd(w)

SpecVoteConc == InitVote /\ [][NextVoteConc]_vars

\* ------------------------------------------------------------------------
\* Claims about the vote ledger
\* ------------------------------------------------------------------------
TargetExists(e) ==
    \/ e.post_id \in Posts /\ e.reply_id = None
    \/ e.post_id = None /\ e.reply_id \in 1..Len(replies)

SameCast(a, b) ==
    a.user_id = b.user_id /\ a.post_id = b.post_id /\ a.reply_id = b.reply_id

RowsOf(vs, e) ==
    {v \in vs : v.user_id = e.user_id /\ v.post_id = e.post_id
                 /\ v.reply_id = e.reply_id}

FirstCast(e) == TargetExists(e) /\ RowsOf(e.before, e) = {}

\* C1: under every interleaving of the read and write halves of vote
\* requests, the votes table holds at most one row per (user, post) and at
\* most one row per (user, reply).
C1_OneVotePerUserAndTarget ==
    \A v1 \in votes, v2 \in votes :
        /\ (v1.user_id = v2.user_id /\ v1.post_id # None
              /\ v1.post_id = v2.post_id) => v1 = v2
        /\ (v1.user_id = v2.user_id /\ v1.reply_id # None
              /\ v1.reply_id = v2.reply_id) => v1 = v2

\* C1 witness: two requests of one voter raced on one target; one row is
\* stored and the later insert was rejected by the unique constraint.
C1_Witness ==
    \E w \in Workers :
        /\ vw[w].pc = "idle"
        /\ vw[w].raised = "IntegrityError"
        /\ Cardinality(RowsOf(votes, vw[w])) = 1

\* C2: a vote request whose insert was rejected by the unique constraint is
\* retried; a conflict reaches the caller only after more than one attempt.
C2_ConflictIsRetried ==
    \A w \in Workers :
        (vw[w].pc = "idle" /\ vw[w].raised = "IntegrityError"
           /\ vw[w].resp.status = 500) => vw[w].attempts > 1

\* C3: a cast by a voter without a row on an existing target adds exactly
\* one row (voter, target, polarity) and returns it; an upvote on a target
\* without votes leaves the counts at upvotes 1, downvotes 0, net +1.
C3_FirstCastInserts ==
    /\ Len(log) > 0 => log[Len(log)].after = votes
    /\ \A i \in 1..Len(log) :
         LET e == log[i] IN
         FirstCast(e) =>
           /\ e.resp.status = 200 /\ e.resp.kind = "vote"
           /\ e.resp.vote \notin e.before
           /\ e.after = e.before \cup {e.resp.vote}
           /\ e.resp.vote.id \notin {v.id : v \in e.before}
           /\ e.resp.vote.user_id = e.user_id
           /\ e.resp.vote.post_id = e.post_id
           /\ e.resp.vote.reply_id = e.reply_id
           /\ e.resp.vote.vote_type = e.vote_type
           /\ (e.vote_type = "upvote"
                 /\ CountsFor(e.before, e.post_id, e.reply_id).total_votes = 0)
              => LET c == CountsFor(e.after, e.post_id, e.reply_id)
                 IN  c.upvote_count = 1 /\ c.downvote_count = 0
                     /\ c.net_votes = 1

C3_Witness ==
    \E i \in 1..Len(log) :
        /\ FirstCast(log[i])
        /\ log[i].vote_type = "upvote"
        /\ CountsFor(log[i].before, log[i].post_id, log[i].reply_id).total_votes = 0
        /\ log[i].resp.kind = "vote"
        /\ votes # {}

\* C4: two consecutive casts of one polarity by one voter on one target,
\* the voter having no row before the first, leave the voter without a row
\* and the target's counts as before the first; the second returns the
\* removal carrying that polarity.
C4_SameTwiceRemoves ==
    \A i \in 1..(Len(log) - 1) :
        LET a == log[i]
            b == log[i + 1]
        IN  (FirstCast(a) /\ SameCast(a, b) /\ a.vote_type = b.vote_type) =>
              /\ RowsOf(b.after, b) = {}
              /\ CountsFor(b.after, b.post_id, b.reply_id)
                   = CountsFor(a.before, a.post_id, a.reply_id)
              /\ b.resp.status = 200 /\ b.resp.kind = "removed"
              /\ b.resp.previous_vote_type = a.vote_type

C4_Witness ==
    \E i \in 1..(Len(log) - 1) :
        /\ FirstCast(log[i])
        /\ SameCast(log[i], log[i + 1])
        /\ log[i].vote_type = log[i + 1].vote_type
        /\ log[i].before # {}
        /\ log[i + 1].resp.kind = "removed"

\* C5: upvote then downvote by one voter on one target, the voter having no
\* row before, leaves exactly one row of that voter on the target, a
\* downvote with the identifier of the row the upvote created, and a net
\* count 2 below the net after the upvote.
C5_UpThenDownSwitches ==
    \A i \in 1..(Len(log) - 1) :
        LET a == log[i]
            b == log[i + 1]
        IN  (FirstCast(a) /\ SameCast(a, b) /\ a.vote_type = "upvote"
               /\ b.vote_type = "downvote") =>
              /\ Cardinality(RowsOf(b.after, b)) = 1
              /\ \A v \in RowsOf(b.after, b) :
                    v.vote_type = "downvote" /\ v.id = a.resp.vote.id
              /\ b.resp.kind = "vote" /\ b.resp.vote \in b.after
              /\ CountsFor(b.after, b.post_id, b.reply_id).net_votes
                   = CountsFor(a.after, a.post_id, a.reply_id).net_votes - 2

C5_Witness ==
    \E i \in 1..(Len(log) - 1) :
        /\ FirstCast(log[i])
        /\ SameCast(log[i], log[i + 1])
        /\ log[i].vote_type = "upvote" /\ log[i + 1].vote_type = "downvote"
        /\ log[i + 1].branch = "update"
        /\ Cardinality(log[i + 1].after) > 1

\* C11: every vote row has exactly one of post_id and reply_id set; a
\* create_vote call with both or with neither raises ValueError and writes
\* no row.
C11_ExactlyOneTarget ==
    /\ \A v \in votes : OneTarget(v.post_id, v.reply_id)
    /\ \A i \in 1..Len(log) :
         ~OneTarget(log[i].post_id, log[i].reply_id) =>
           /\ log[i].raised = "ValueError"
           /\ log[i].after = log[i].before
           /\ log[i].resp.vote = NoVote

C11_Witness ==
    /\ \E i \in 1..Len(log) : log[i].post_id # None /\ log[i].reply_id # None
    /\ \E i \in 1..Len(log) : log[i].post_id = None /\ log[i].reply_id = None
    /\ \E v \in votes : v.post_id # None
    /\ \E v \in votes : v.reply_id # None

\* C12: a vote request naming a post or reply that does not exist is
\* answered 404 with detail Post not found or Reply not found, and no vote
\* row is created or changed.
C12_MissingTargetIs404 ==
    \A i \in 1..Len(log) :
        LET e == log[i] IN
        ((e.post_id \notin Posts /\ e.reply_id = None)
           \/ (e.post_id = None /\ e.reply_id \notin 1..Len(replies))) =>
          /\ e.resp.status = 404
          /\ e.resp.detail = IF e.post_id # None THEN "Post not found"
                             ELSE "Reply not found"
          /\ e.after = e.before

\* the change of a target's count of one polarity that a completed cast
\* reports through its outcome
Delta(e, post_id, reply_id, vote_type) ==
    IF e.post_id # post_id \/ e.reply_id # reply_id \/ e.resp.status # 200
    THEN 0
    ELSE IF e.resp.kind = "removed"
    THEN (IF e.resp.previous_vote_type = vote_type THEN -1 ELSE 0)
    ELSE IF e.branch = "insert"
    THEN (IF e.resp.vote.vote_type = vote_type THEN 1 ELSE 0)
    ELSE (IF e.resp.vote.vote_type = vote_type THEN 1 ELSE -1)

RECURSIVE Tally(_, _, _, _)
Tally(l, post_id, reply_id, vote_type) ==
    IF l = <<>> THEN 0
    ELSE Tally(SubSeq(l, 1, Len(l) - 1), post_id, reply_id, vote_type)
         + Delta(l[Len(l)], post_id, reply_id, vote_type)

CountsMatch(post_id, reply_id) ==
    LET c == CountsFor(votes, post_id, reply_id)
        U == Cardinality({v \in votes : v.post_id = post_id
                            /\ v.reply_id = reply_id /\ v.vote_type = "upvote"})
        D == Cardinality({v \in votes : v.post_id = post_id
                            /\ v.reply_id = reply_id /\ v.vote_type = "downvote"})
    IN  /\ c.upvote_count = U /\ c.downvote_count = D
        /\ c.net_votes = U - D /\ c.total_votes = U + D
        /\ U = Tally(log, post_id, reply_id, "upvote")
        /\ D = Tally(log, post_id, reply_id, "downvote")

\* C6: after any sequence of casts the counts of a target are the numbers
\* of rows stored for it per polarity, with net = U - D and total = U + D,
\* and equal the counter kept incrementally from the casts' outcomes.
C6_CountsMatchLedger ==
    /\ \A p \in Posts : CountsMatch(p, None)
    /\ \A r \in 1..Len(replies) : CountsMatch(None, r)

C6_Witness ==
    /\ \E i \in 1..Len(log) : log[i].branch = "delete" /\ log[i].post_id = 1
    /\ \E i \in 1..Len(log) : log[i].branch = "update" /\ log[i].post_id = 1
    /\ get_vote_counts_for_post(votes, 1).total_votes = 1
    /\ get_vote_counts_for_post(votes, 1).net_votes = -1

\* ------------------------------------------------------------------------
\* Reply requests served one at a time
\* ------------------------------------------------------------------------
InitReply ==
    /\ votes = {}
    /\ nextVoteId = 1
    /\ replies = <<>>
    /\ log = <<>>
    /\ vw = [w \in Workers |-> IdleVote]
    /\ casts = 0
    /\ lastCreate = NoCreate
    /\ rw = [w \in Workers |-> IdleCreate]

CreateReplyWithin(max, now, post_id, author_id, parent_id) ==
    /\ Len(replies) < max
    /\ LET error == create_reply_check(replies, post_id, author_id, parent_id)
           after == IF error = "" 
                    THEN create_reply_insert(replies, now, post_id,
                                             author_id, parent_id)
                    ELSE replies
       IN  /\ replies' = after
           /\ lastCreate' = Created(post_id, author_id, parent_id, error,
                                    replies, after)
    /\ UNCHANGED <<votes, nextVoteId, log, vw, casts, rw>>

CreateReply(now, post_id, author_id, parent_id) ==
    CreateReplyWithin(MaxReplies, now, post_id, author_id, parent_id)

DeleteReply(now, reply_id) ==
    /\ replies' = delete_reply(replies, now, reply_id)
    /\ UNCHANGED <<votes, nextVoteId, log, vw, casts, lastCreate, rw>>

\* requests naming a missing post or author are tried without a parent
CreateInput(post_id, author_id, parent_id) ==
    (post_id \in Posts /\ author_id \in Users) \/ parent_id = None

NextReply ==
    \/ \E p \in Posts \cup {3}, a \in {1, 3}, r \in 0..(Len(replies) + 1) :
          CreateInput(p, a, r) /\ CreateReply(Later(replies), p, a, r)
    \/ \E r \in 1..(Len(replies) + 1) : DeleteReply(Latest(replies), r)

SpecReply == InitReply /\ [][NextReply]_vars

\* ------------------------------------------------------------------------
\* Deep threads, one request at a time: each request starts a thread in
\* post 1 or replies under the newest reply.
\* ------------------------------------------------------------------------
CreateReplyDeep(parent_id) ==
    CreateReplyWithin(MaxDeepReplies, Later(replies), 1, 1, parent_id)

NextReplyDeep ==
    \E r \in {None, Len(replies)} : CreateReplyDeep(r)

SpecReplyDeep == InitReply /\ [][NextReplyDeep]_vars

\* ------------------------------------------------------------------------
\* Concurrent create-reply requests building deep threads: the checks
\* (crud/reply.py lines 73-98) and the insert (lines 100-110) are separate
\* steps.  The first request starts a thread in post 1 and each later one
\* replies under the newest reply it sees.
\* ------------------------------------------------------------------------
DeepParents ==
    IF replies = <<>> THEN {None} ELSE {Len(replies)}

CreateCheckWithin(max, w, post_id, author_id, parent_id) ==
    /\ rw[w].pc = "idle"
    /\ Len(replies) < max
    /\ LET error == create_reply_check(replies, post_id, author_id, parent_id)
       IN  IF error = ""
           THEN /\ rw' = [rw EXCEPT ![w] = [pc |-> "checked",
                             post_id |-> post_id, author_id |-> author_id,
                             parent_id |-> parent_id]]
                /\ UNCHANGED lastCreate
           ELSE /\ lastCreate' = Created(post_id, author_id, parent_id, error,
                                         replies, replies)
                /\ UNCHANGED rw
    /\ UNCHANGED <<votes, nextVoteId, replies, log, vw, casts>>

CreateInsert(w) ==
    /\ rw[w].pc = "checked"
    /\ LET after == create_reply_insert(replies, Later(replies),
                                        rw[w].post_id, rw[w].author_id,
                                        rw[w].parent_id)
       IN  /\ replies' = after
           /\ lastCreate' = Created(rw[w].post_id, rw[w].author_id,
                                    rw[w].parent_id, "", replies, after)
    /\ rw' = [rw EXCEPT ![w] = IdleCreate]
    /\ UNCHANGED <<votes, nextVoteId, log, vw, casts>>

CreateCheck(w, post_id, author_id, parent_id) ==
    CreateCheckWithin(MaxDeepReplies, w, post_id, author_id, parent_id)

NextReplyConc ==
    \/ \E w \in Workers, r \in DeepParents : CreateCheck(w, 1, 1, r)
    \/ \E w \in Workers : CreateInsert(w)

SpecReplyConc == InitReply /\ [][NextReplyConc]_vars

\* ------------------------------------------------------------------------
\* Create requests racing with delete requests: the two halves of
\* create_reply of each worker, and delete_reply, which reads and commits
\* in one step.
\* ------------------------------------------------------------------------
CreateCheckRace(w, parent_id) ==
    CreateCheckWithin(MaxRaceReplies, w, 1, 1, parent_id)

NextReplyRace ==
    \/ \E w \in Workers, r \in 0..Len(replies) : CreateCheckRace(w, r)
    \/ \E w \in Workers : CreateInsert(w)
    \/ \E r \in 1..Len(replies) : DeleteReply(Latest(replies), r)

SpecReplyRace == InitReply /\ [][NextReplyRace]_vars

\* ------------------------------------------------------------------------
\* Creates, edits, soft deletes and votes on replies, one request at a time
\* ------------------------------------------------------------------------
Contents == {"a", "b"}

CreateReplyMixed(now, post_id, parent_id) ==
    CreateReplyWithin(MaxMixedReplies, now, post_id, 1, parent_id)

UpdateReply(now, reply_id, content) ==
    /\ replies' = update_reply(replies, now, reply_id, content)
    /\ UNCHANGED <<votes, nextVoteId, log, vw, casts, lastCreate, rw>>

VoteOnReplyMixed(reply_id, vote_type) ==
    VoteOnReplyWithin(MaxMixedCasts, reply_id, 1, vote_type)

NextMixed ==
    \/ \E p \in Posts, r \in 0..Len(replies) :
          CreateReplyMixed(Now(replies), p, r)
    \/ \E r \in 1..(Len(replies) + 1) : DeleteReply(Now(replies), r)
    \/ \E r \in 1..(Len(replies) + 1) : UpdateReply(Now(replies), r, "b")
    \/ \E r \in 1..Len(replies), t \in VoteTypes : VoteOnReplyMixed(r, t)

SpecMixed == InitReply /\ [][NextMixed]_vars

\* ------------------------------------------------------------------------
\* Creates, edits and soft deletes in one thread of post 1, each write at
\* a clock reading that may equal the reading of the write before it
\* ------------------------------------------------------------------------
CreateReplyTimed(now, parent_id) ==
    CreateReplyWithin(MaxTimedReplies, now, 1, 1, parent_id)

NextTimed ==
    \/ \E r \in 0..Len(replies), now \in Ticks(replies) :
          CreateReplyTimed(now, r)
    \/ \E r \in 1..(Len(replies) + 1), c \in Contents, now \in Ticks(replies) :
          UpdateReply(now, r, c)
    \/ \E r \in 1..(Len(replies) + 1), now \in Ticks(replies) :
          DeleteReply(now, r)

SpecTimed == InitReply /\ [][NextTimed]_vars

\* ------------------------------------------------------------------------
\* The reply tree under creates, edits, deletes and bulk deletes, one
\* request at a time; the clock advances before every create.
\* ------------------------------------------------------------------------
\* the reply_ids of a bulk delete request: one or two ids, of rows of the
\* table or the next id not yet given out
BulkIds(rs) ==
    {ids \in SUBSET (1..(Len(rs) + 1)) : Cardinality(ids) \in {1, 2}}

CreateReplyTree(now, post_id, parent_id) ==
    CreateReplyWithin(MaxTreeReplies, now, post_id, 1, parent_id)

UpdateReplyTree(now, reply_id) ==
    /\ get_reply_by_id(replies, reply_id) # None
    /\ UpdateReply(now, reply_id, "b")

BulkDeleteReplies(now, reply_ids) ==
    /\ replies' = bulk_delete_replies(replies, now, reply_ids).replies
    /\ UNCHANGED <<votes, nextVoteId, log, vw, casts, lastCreate, rw>>

NextTree ==
    \/ \E p \in Posts, r \in 0..Len(replies) :
          CreateReplyTree(Later(replies), p, r)
    \/ \E r \in 1..Len(replies) : UpdateReplyTree(Latest(replies), r)
    \/ \E r \in 1..(Len(replies) + 1) : DeleteReply(Latest(replies), r)
    \/ \E ids \in BulkIds(replies) :
          BulkDeleteReplies(Latest(replies), ids)

SpecTree == InitReply /\ [][NextTree]_vars

\* ------------------------------------------------------------------------
\* Delete and bulk delete requests on the root replies of post 1, every
\* write at a later clock reading than the writes before it; each delete
\* request and its answer are kept in log
\* ------------------------------------------------------------------------
CreateReplyRemoval(now, parent_id) ==
    CreateReplyWithin(MaxRemovalReplies, now, 1, 1, parent_id)

Removed(r) ==
    /\ Len(log) < MaxRemovals
    /\ replies' = r.after
    /\ log' = Append(log, r)
    /\ UNCHANGED <<votes, nextVoteId, vw, casts, lastCreate, rw>>

DeleteReplyLogged(now, reply_id) ==
    Removed(delete_reply_route(replies, now, reply_id))

BulkDeleteLogged(now, reply_ids) ==
    Removed(bulk_delete_replies_route(replies, now, reply_ids))

NextRemoval ==
    \/ CreateReplyRemoval(Later(replies), None)
    \/ \E r \in 1..Len(replies) : UpdateReplyTree(Later(replies), r)
    \/ \E r \in 1..Len(replies) : DeleteReplyLogged(Later(replies), r)
    \/ \E ids \in BulkIds(replies) :
          Cardinality(ids) = 2 /\ BulkDeleteLogged(Later(replies), ids)

SpecRemoval == InitReply /\ [][NextRemoval]_vars

\* ------------------------------------------------------------------------
\* Claims about the reply tree
\* ------------------------------------------------------------------------
Ids(rs) == 1..Len(rs)

\* C7: a create under a parent of depth 9 fails with Maximum reply depth
\* exceeded and persists nothing; under a parent of depth 8 it succeeds and
\* the new reply has depth 9.
C7_DepthNineParentRejected ==
    LET c == lastCreate IN
    (c.status # 0 /\ c.parent_id \in Ids(c.before)) =>
      /\ depth(c.before, c.parent_id) = 9 =>
           /\ c.status = 400
           /\ c.detail = "Maximum reply depth exceeded"
           /\ c.after = c.before
      /\ depth(c.before, c.parent_id) = 8 =>
           /\ c.status = 201
           /\ depth(c.after, c.id) = 9

\* C8: every reply has depth 0 without a parent and the depth of its parent
\* plus one otherwise; a reply created under parent p has depth depth(p) + 1
\* and a reply created without a parent has depth 0.
C8_DepthIsParentDepthPlusOne ==
    /\ \A id \in Ids(replies) :
         depth(replies, id) =
           IF replies[id].parent_id = None THEN 0
           ELSE depth(replies, replies[id].parent_id) + 1
    /\ lastCreate.status = 201 =>
         /\ lastCreate.id \in Ids(replies)
         /\ depth(replies, lastCreate.id) =
              IF lastCreate.parent_id = None THEN 0
              ELSE depth(lastCreate.before, lastCreate.parent_id) + 1

C8_Witness ==
    /\ lastCreate.status = 201
    /\ lastCreate.parent_id # None
    /\ depth(replies, lastCreate.id) = 2
    /\ \E id \in Ids(replies) : is_deleted(replies[id])

\* C9: under every interleaving of the check and insert steps of creates,
\* every reply has depth at most 10, and the parent-chain walks of depth,
\* thread_root and ancestors end within 10 hops.
C9_DepthAtMostTen ==
    \A id \in Ids(replies) :
        /\ depth(replies, id) <= 10
        /\ Len(ancestors(replies, id)) <= 10
        /\ replies[thread_root(replies, id)].parent_id = None

C9_Witness ==
    /\ \E id \in Ids(replies) : depth(replies, id) = 10
    /\ lastCreate.status = 400
    /\ \E w \in Workers : rw[w].pc = "checked"

\* C10: every reply that has a parent belongs to the post of that parent;
\* a create naming a parent of another post is rejected and persists nothing.
C10_ParentInSamePost ==
    /\ \A id \in Ids(replies) :
         replies[id].parent_id # None =>
           /\ replies[id].parent_id \in Ids(replies)
           /\ replies[replies[id].parent_id].post_id = replies[id].post_id
    /\ LET c == lastCreate IN
       (c.status # 0 /\ c.parent_id \in Ids(c.before)
          /\ c.before[c.parent_id].post_id # c.post_id) =>
         /\ c.status \in {400, 404}
         /\ c.after = c.before

C10_Witness ==
    LET c == lastCreate IN
    /\ c.parent_id \in Ids(c.before)
    /\ c.post_id \in Posts
    /\ c.before[c.parent_id].post_id # c.post_id
    /\ ~is_deleted(c.before[c.parent_id])
    /\ c.status = 404 /\ c.detail = "Parent reply not found"
    /\ replies = c.before

ParentUsable(rs, parent_id, post_id) ==
    /\ parent_id \in Ids(rs)
    /\ ~is_deleted(rs[parent_id])
    /\ rs[parent_id].post_id = post_id

\* C13: a create naming a missing post, a missing author, or a parent that
\* does not exist, is soft-deleted or belongs to another post is answered
\* 404, leaves the replies table unchanged, and its detail names an entity
\* (post, author, parent) that indeed was not found.
C13_CreateNotFound ==
    LET c == lastCreate
        noPost == c.post_id \notin Posts
        noAuthor == c.author_id \notin Users
        noParent == c.parent_id # None
                    /\ ~ParentUsable(c.before, c.parent_id, c.post_id)
    IN  (c.status # 0 /\ (noPost \/ noAuthor \/ noParent)) =>
          /\ c.status = 404
          /\ c.after = c.before
          /\ c.id = None
          /\ c.detail \in {"Post not found", "Author not found",
                            "Parent reply not found"}
          /\ c.detail = "Post not found" => noPost
          /\ c.detail = "Author not found" => noAuthor
          /\ c.detail = "Parent reply not found" => noParent

C13_Witness ==
    LET c == lastCreate IN
    /\ c.status = 404 /\ c.detail = "Parent reply not found"
    /\ c.parent_id \in Ids(c.before)
    /\ is_deleted(c.before[c.parent_id])
    /\ c.before[c.parent_id].post_id = c.post_id
    /\ replies = c.before

\* the skip and limit values a listing is asked with
Pages(rs) == 0..Len(rs)

Live(rs, s) == \A k \in 1..Len(s) : ~is_deleted(rs[s[k]])

SoftDeletedHidden(rs) ==
    /\ \A r \in Ids(rs) : is_deleted(rs[r]) => get_reply_by_id(rs, r) = None
    /\ \A skip \in Pages(rs), limit \in Pages(rs) :
         /\ \A p \in Posts :
              /\ Live(rs, get_post_replies(rs, p, skip, limit))
              /\ Live(rs, get_post_replies_threaded(
                             rs, NoCache(rs), p, skip, limit).replies)
         /\ \A q \in Ids(rs) :
              Live(rs, get_reply_children(rs, q, skip, limit))

SoftDeletedKept ==
    \A r \in Ids(replies) :
        /\ is_deleted(replies[r]) =>
             r \in Ids(replies') /\ replies'[r] = replies[r]
        /\ (~is_deleted(replies[r]) /\ r \in Ids(replies') /\ is_deleted(replies'[r]))
             => replies'[r].content = replies[r].content

\* C14: once a reply is soft-deleted, in every later state it is absent
\* from the flat listing, the threaded listing and every children listing,
\* a lookup by id finds nothing, and its row is still there with the content
\* it had when it was deleted.
C14_SoftDeletedStaysHidden ==
    /\ []SoftDeletedHidden(replies)
    /\ [][SoftDeletedKept]_vars

C14_Witness ==
    \E r \in Ids(replies), c \in Ids(replies) :
        /\ is_deleted(replies[r]) /\ replies[r].content = "b"
        /\ replies[c].parent_id = r /\ ~is_deleted(replies[c])

\* C15: soft-deleting a reply leaves the edges of the tree in place: the
\* deleted reply is gone from both listings of its post, while each of its
\* live children still reports it as first ancestor, followed by the deleted
\* reply's own ancestors, and has depth one more than it (for a deleted root
\* A with child B: ancestors of B are [A] and the depth of B is 1).
C15_DeleteKeepsEdges ==
    \A a \in Ids(replies), b \in Ids(replies) :
        (is_deleted(replies[a]) /\ ~is_deleted(replies[b]) /\ replies[b].parent_id = a)
        => /\ a \notin Elems(get_post_replies(replies, replies[a].post_id, 0,
                                               Len(replies)))
           /\ a \notin Elems(get_post_replies_threaded(
                               replies, NoCache(replies), replies[a].post_id,
                               0, Len(replies)).replies)
           /\ get_reply_ancestors(replies, b) = <<a>> \o ancestors(replies, a)
           /\ depth(replies, b) = depth(replies, a) + 1
           /\ replies[a].parent_id = None =>
                /\ get_reply_ancestors(replies, b) = <<a>>
                /\ depth(replies, b) = 1

C15_Witness ==
    \E a \in Ids(replies), b \in Ids(replies) :
        /\ replies[a].parent_id = None /\ is_deleted(replies[a])
        /\ replies[b].parent_id = a /\ ~is_deleted(replies[b])
        /\ get_reply_ancestors(replies, b) = <<a>>

\* the replies whose field f differs between the two ends of a step
Changed(f) ==
    {r \in Ids(replies) \cap Ids(replies') : replies'[r][f] # replies[r][f]}

\* C16: a step that soft-deletes a reply changes deleted_at of that one
\* reply and nothing else: no other reply is marked (no cascade to
\* children), no other field of the reply changes, no row is added and the
\* vote rows are untouched.  A step that edits a reply changes the content
\* (and updated_at) of that one reply and no reply's parent, post, author
\* or deleted_at.
C16_DeleteAndUpdateFrame ==
    [][/\ Changed("deleted_at") # {} =>
            /\ Cardinality(Changed("deleted_at")) = 1
            /\ Len(replies') = Len(replies)
            /\ \A r \in Ids(replies) :
                 replies'[r] = [replies[r] EXCEPT
                                  !.deleted_at = replies'[r].deleted_at]
            /\ votes' = votes
            /\ nextVoteId' = nextVoteId
       /\ Changed("content") # {} =>
            /\ Cardinality(Changed("content")) = 1
            /\ Len(replies') = Len(replies)
            /\ \A r \in Ids(replies) :
                 replies'[r] = [replies[r] EXCEPT
                                  !.content = replies'[r].content,
                                  !.updated_at = replies'[r].updated_at]
            /\ \A r \in Ids(replies) \ Changed("content") :
                 replies'[r] = replies[r]
      ]_vars

\* the threaded listing of a post before pagination, in a fresh session
Threaded(post_id) ==
    get_post_replies_threaded(replies, NoCache(replies), post_id, 0,
                              Len(replies)).replies

\* the live replies of a post all of whose ancestors are live
Listable(post_id) ==
    {r \in Ids(replies) :
        /\ replies[r].post_id = post_id /\ ~is_deleted(replies[r])
        /\ \A a \in Elems(ancestors(replies, r)) : ~is_deleted(replies[a])}

PreOrder(full, post_id) ==
    /\ Len(full) = Cardinality(Elems(full))
    /\ Elems(full) = Listable(post_id)
    /\ \A i \in 1..Len(full), j \in 1..Len(full) :
         (i < j /\ replies[full[i]].parent_id = replies[full[j]].parent_id)
           => full[i] < full[j]
    /\ \A i \in 1..Len(full) :
         /\ replies[full[i]].parent_id # None =>
              \E j \in 1..(i - 1) : full[j] = replies[full[i]].parent_id
         /\ LET under == {j \in 1..Len(full) :
                            is_ancestor_of(replies, full[i], full[j])}
            IN  under = (i + 1)..(i + Cardinality(under))

PageOf(full, skip, limit) ==
    LET rest == IF Len(full) > skip THEN Len(full) - skip ELSE 0
        n == IF limit < rest THEN limit ELSE rest
    IN  [k \in 1..n |-> full[skip + k]]

\* C17: before pagination the threaded listing of a post is a pre-order
\* walk of its live replies: no reply twice, roots in creation order and
\* the children of one reply in creation order, every reply after its
\* parent, and the replies below a reply directly behind it with nothing in
\* between; skip and limit return the slice [skip, skip + limit) of it.
C17_ThreadedIsPreOrder ==
    \A p \in Posts :
        LET full == Threaded(p)
        IN  /\ PreOrder(full, p)
            /\ \A skip \in 0..(Len(full) + 1), limit \in 0..(Len(full) + 1) :
                 get_post_replies_threaded(replies, NoCache(replies), p, skip,
                                           limit).replies
                   = PageOf(full, skip, limit)

C17_Witness ==
    \E p \in Posts :
        /\ Len(Threaded(p)) >= 3
        /\ Threaded(p) # get_post_replies(replies, p, 0, Len(replies))

\* C18: the threaded listing called twice in one session on unchanged
\* rows, the second call finding the reply objects as the first left them,
\* returns the same sequence both times, every reply at most once.
C18_ThreadedTwiceSame ==
    \A p \in Posts :
        LET first == get_post_replies_threaded(replies, NoCache(replies), p,
                                               0, DefaultLimit)
            second == get_post_replies_threaded(replies, first.cache, p,
                                                0, DefaultLimit)
        IN  /\ second.replies = first.replies
            /\ Len(second.replies) = Cardinality(Elems(second.replies))

\* C19: the thread root of every reply has no parent, and the reply is the
\* root itself or one of the root's descendants.
C19_ThreadRoot ==
    \A r \in Ids(replies) :
        LET root == thread_root(replies, r)
        IN  /\ root \in Ids(replies)
            /\ replies[root].parent_id = None
            /\ r = root \/ r \in Elems(descendants(replies, root))

C19_Witness ==
    \E r \in Ids(replies) :
        /\ depth(replies, r) >= 2
        /\ thread_root(replies, r) # r
        /\ is_deleted(replies[thread_root(replies, r)])
        /\ r \in Elems(descendants(replies, thread_root(replies, r)))

\* the replies reached from b by following parent one or more times
RECURSIVE ParentsFrom(_, _)
ParentsFrom(b, n) ==
    IF n = 0 \/ replies[b].parent_id = None THEN {}
    ELSE {replies[b].parent_id} \cup ParentsFrom(replies[b].parent_id, n - 1)

\* C20: a reply is an ancestor of another exactly when it is reached from
\* the other by following parent one or more times; no reply is its own
\* ancestor, and two replies are never ancestors of each other.
C20_IsAncestorOf ==
    \A a \in Ids(replies), b \in Ids(replies) :
        /\ is_ancestor_of(replies, a, b) <=> a \in ParentsFrom(b, Len(replies))
        /\ ~is_ancestor_of(replies, a, a)
        /\ is_ancestor_of(replies, a, b) => ~is_ancestor_of(replies, b, a)

C20_Witness ==
    \E a \in Ids(replies), b \in Ids(replies), c \in Ids(replies) :
        /\ is_ancestor_of(replies, a, b) /\ replies[b].parent_id # a
        /\ ~is_ancestor_of(replies, a, c) /\ ~is_ancestor_of(replies, c, a)
        /\ a # c

\* C21: the siblings of a reply never include the reply itself and are
\* exactly the other replies with the same parent; for a root, the other
\* root-level replies of the same post.
C21_Siblings ==
    \A r \in Ids(replies) :
        LET sibs == siblings(replies, r)
        IN  /\ r \notin Elems(sibs)
            /\ Len(sibs) = Cardinality(Elems(sibs))
            /\ Elems(sibs) =
                 {x \in Ids(replies) \ {r} :
                    /\ replies[x].parent_id = replies[r].parent_id
                    /\ replies[r].parent_id = None =>
                         replies[x].post_id = replies[r].post_id}

C21_Witness ==
    \E r \in Ids(replies), c \in Ids(replies), o \in Ids(replies) :
        /\ replies[r].parent_id = None /\ siblings(replies, r) # <<>>
        /\ replies[o].parent_id = None
        /\ replies[o].post_id # replies[r].post_id
        /\ replies[c].parent_id = r /\ siblings(replies, c) = <<>>

\* C22: the ancestors of a reply are its parent chain in order: the first
\* is its parent, each next one the parent of the one before, and the last
\* has no parent and is the thread root; the sequence is empty exactly for
\* a root and its length is the depth of the reply.
C22_AncestorsChain ==
    \A r \in Ids(replies) :
        LET anc == ancestors(replies, r)
        IN  /\ anc = <<>> <=> replies[r].parent_id = None
            /\ Len(anc) = depth(replies, r)
            /\ anc # <<>> =>
                 /\ anc[1] = replies[r].parent_id
                 /\ \A k \in 1..(Len(anc) - 1) :
                      anc[k + 1] = replies[anc[k]].parent_id
                 /\ replies[anc[Len(anc)]].parent_id = None
                 /\ anc[Len(anc)] = thread_root(replies, r)

C22_Witness ==
    \E r \in Ids(replies) :
        /\ Len(ancestors(replies, r)) = 3
        /\ ancestors(replies, r)[1] = replies[r].parent_id
        /\ ancestors(replies, r)[3] = thread_root(replies, r)
        /\ \E x \in Ids(replies) : is_deleted(replies[x])

\* C23: the descendants of a reply are exactly the replies that have it
\* among their ancestors, each listed once.
C23_Descendants ==
    \A r \in Ids(replies) :
        LET desc == descendants(replies, r)
        IN  /\ Len(desc) = Cardinality(Elems(desc))
            /\ Elems(desc) =
                 {x \in Ids(replies) : r \in Elems(ancestors(replies, x))}

C23_Witness ==
    \E r \in Ids(replies), x \in Ids(replies) :
        /\ Len(descendants(replies, r)) = 3
        /\ x \in Elems(descendants(replies, r))
        /\ replies[x].parent_id # r
        /\ is_deleted(replies[replies[x].parent_id])

\* C24: the thread of a live reply holds the thread root and every reply
\* below that root, each once, no reply before one created earlier, and is
\* the same whichever live reply of the thread it is asked for.
C24_ThreadOf ==
    \A r \in Ids(replies) :
        ~is_deleted(replies[r]) =>
          LET t == get_reply_thread(replies, r)
          IN  /\ Len(t) = Cardinality(Elems(t))
              /\ Elems(t) = {x \in Ids(replies) :
                               thread_root(replies, x) = thread_root(replies, r)}
              /\ \A i \in 1..Len(t), j \in 1..Len(t) :
                   i < j => replies[t[i]].created_at <= replies[t[j]].created_at
              /\ \A x \in Elems(t) :
                   ~is_deleted(replies[x]) => get_reply_thread(replies, x) = t

C24_Witness ==
    \E r \in Ids(replies) :
        /\ ~is_deleted(replies[r]) /\ replies[r].parent_id # None
        /\ Len(get_reply_thread(replies, r)) = 4
        /\ get_reply_thread(replies, r)
             # <<thread_root(replies, r)>>
               \o descendants(replies, thread_root(replies, r))
        /\ \E x \in Elems(get_reply_thread(replies, r)) : is_deleted(replies[x])

\* C25: asking for the ancestors, descendants or siblings of a reply id
\* that does not exist is answered NotFound, not with an empty sequence.
C25_NavigationNotFound ==
    \A id \in ReplyIdInputs \ Ids(replies) :
        /\ ancestors_route(replies, id).status = 404
        /\ descendants_route(replies, id).status = 404
        /\ siblings_route(replies, id).status = 404

\* C26: listing the replies of a post id that does not exist is answered
\* 404 with detail Post not found, flat and threaded alike.
C26_ListingNotFound ==
    \A p \in PostIdInputs \ Posts, threaded \in BOOLEAN :
        LET resp == post_replies_route(replies, p, 0, DefaultLimit, threaded)
        IN  resp.status = 404 /\ resp.detail = "Post not found"

\* C27: after any sequence of casts the count properties of every post
\* and reply entity equal the counts of the vote rows stored for it.
C27_EntityCountsMatchRows ==
    /\ \A p \in Posts :
         Post_counts(votes, p) = get_vote_counts_for_post(votes, p)
    /\ \A r \in Ids(replies) :
         Reply_counts(votes, r) = get_vote_counts_for_reply(votes, r)

\* C28: whatever other create happened between a request's checks and its
\* insert, the insert succeeds at once: one row is appended under a new
\* identifier, with the parent the request named and depth one more than
\* that parent's, and no other row changes; so two requests that checked
\* the same parent both leave their reply under it.
C28_ConcurrentChildren ==
    [][\A w \in Workers :
         (rw[w].pc = "checked" /\ rw'[w].pc = "idle") =>
           LET new == Len(replies) + 1
           IN  /\ Len(replies') = new
               /\ \A i \in Ids(replies) :
                    replies'[i] = replies[i] /\ replies[i].id # new
               /\ replies'[new].id = new
               /\ replies'[new].parent_id = rw[w].parent_id
               /\ depth(replies', new) =
                    IF rw[w].parent_id = None THEN 0
                    ELSE depth(replies, rw[w].parent_id) + 1
               /\ lastCreate'.status = 201 /\ lastCreate'.id = new
      ]_vars

C28_Witness ==
    \E a \in Ids(replies), b \in Ids(replies) :
        /\ a # b /\ replies[a].parent_id # None
        /\ replies[a].parent_id = replies[b].parent_id
        /\ replies[a].id # replies[b].id
        /\ depth(replies, a) = depth(replies, replies[a].parent_id) + 1
        /\ depth(replies, b) = depth(replies, a)
        /\ \A w \in Workers : rw[w].pc = "idle"

\* C29: an edit of a reply id that does not exist or is soft-deleted is
\* answered 404 and changes nothing; an edit of a live reply with new
\* content stores the content and leaves updated_at strictly after
\* created_at, so that is_edited is false on a reply just created and true
\* on a reply just edited.
C29_UpdateReply ==
    /\ [](\A r \in 1..(Len(replies) + 1), c \in Contents,
            now \in Ticks(replies) :
            LET resp == update_reply_route(replies, now, r, c)
            IN  IF r \notin Ids(replies) \/ is_deleted(replies[r])
                THEN resp.status = 404 /\ resp.replies = replies
                ELSE /\ resp.status = 200
                     /\ resp.replies[r].content = c)
    /\ [][/\ Len(replies') = Len(replies) + 1 =>
               ~is_edited(replies', Len(replies'))
          /\ \A r \in Changed("content") :
               /\ ~is_deleted(replies[r])
               /\ replies'[r].updated_at > replies'[r].created_at
               /\ is_edited(replies', r)
         ]_vars

VoteOf(user_id, post_id, reply_id) ==
    IF post_id # None THEN get_user_vote_on_post(votes, post_id, user_id)
    ELSE get_user_vote_on_reply(votes, reply_id, user_id)

\* C30: the lookup of a voter's vote on a target is answered 404 exactly
\* when no row of that voter for that target is stored, and otherwise with
\* that row; right after a cast answered with a vote it gives a vote of the
\* same polarity, and right after a cast answered Vote removed it gives 404.
C30_VoteOf ==
    /\ \A u \in Users :
         /\ \A p \in PostIdInputs :
              LET mine == {v \in votes : v.user_id = u /\ v.post_id = p}
                  resp == VoteOf(u, p, None)
              IN  /\ resp.status = 404 <=> mine = {}
                  /\ resp.status # 404 => resp.status = 200 /\ resp.vote \in mine
         /\ \A r \in ReplyIdInputs :
              LET mine == {v \in votes : v.user_id = u /\ v.reply_id = r}
                  resp == VoteOf(u, None, r)
              IN  /\ resp.status = 404 <=> mine = {}
                  /\ resp.status # 404 => resp.status = 200 /\ resp.vote \in mine
    /\ log # <<>> =>
         LET e == log[Len(log)]
             resp == VoteOf(e.user_id, e.post_id, e.reply_id)
         IN  /\ e.resp.kind = "vote" =>
                  /\ resp.status = 200
                  /\ resp.vote.vote_type = e.resp.vote.vote_type
                  /\ resp.vote.vote_type = e.vote_type
             /\ e.resp.kind = "removed" => resp.status = 404

C30_Witness ==
    /\ log # <<>>
    /\ log[Len(log)].resp.kind = "removed"
    /\ log[Len(log)].post_id = 1
    /\ VoteOf(log[Len(log)].user_id, 1, None).status = 404
    /\ \E u \in Users : VoteOf(u, 1, None).status = 200
    /\ \E i \in 1..Len(log) : log[i].branch = "update"

\* two casts in a row by one voter on one existing target with one polarity
TwiceInARow(i) ==
    /\ TargetExists(log[i])
    /\ SameCast(log[i], log[i + 1])
    /\ log[i].vote_type = log[i + 1].vote_type

HadSame(e) == \E v \in RowsOf(e.before, e) : v.vote_type = e.vote_type

\* C31 as stated: after two casts in a row of one polarity by one voter on
\* one target the voter has no row on the target, whatever row the voter
\* had before.
C31_TwiceAlwaysRetracts ==
    \A i \in 1..(Len(log) - 1) :
        TwiceInARow(i) => RowsOf(log[i + 1].after, log[i + 1]) = {}

\* C31 amended: after two casts in a row of one polarity by one voter on
\* one target, the voter has no row on the target if the voter had none or
\* one of the opposite polarity before, and has one row of the cast
\* polarity again if the voter had a row of that polarity before.
C31_TwiceRetractsUnlessSame ==
    \A i \in 1..(Len(log) - 1) :
        TwiceInARow(i) =>
          LET rows == RowsOf(log[i + 1].after, log[i + 1])
          IN  IF HadSame(log[i])
              THEN /\ Cardinality(rows) = 1
                   /\ \A v \in rows : v.vote_type = log[i].vote_type
                   /\ log[i].resp.kind = "removed"
                   /\ log[i + 1].resp.kind = "vote"
              ELSE /\ rows = {}
                   /\ log[i + 1].resp.kind = "removed"

C31_Witness ==
    \E i \in 1..(Len(log) - 1), j \in 1..(Len(log) - 1) :
        /\ TwiceInARow(i) /\ HadSame(log[i])
        /\ RowsOf(log[i + 1].after, log[i + 1]) # {}
        /\ TwiceInARow(j) /\ RowsOf(log[j].before, log[j]) # {}
        /\ ~HadSame(log[j])
        /\ RowsOf(log[j + 1].after, log[j + 1]) = {}

\* C32: a cast whose polarity is neither upvote nor downvote is rejected
\* with a validation error (create_vote raises ValueError Invalid vote type
\* whatever the targets are, the routes answer 422) and leaves the votes
\* table as it was.
C32_InvalidPolarityRejected ==
    \A i \in 1..Len(log) :
        LET e == log[i] IN
        e.vote_type \notin VoteTypes =>
          /\ e.after = e.before
          /\ e.branch = "none"
          /\ e.resp.vote = NoVote
          /\ \/ e.raised = "RequestValidationError" /\ e.resp.status = 422
             \/ /\ e.raised = "ValueError"
                /\ create_vote_read(e.before, replies, e.user_id, e.vote_type,
                                    e.post_id, e.reply_id).error
                     = "Invalid vote type"

C32_Witness ==
    /\ votes # {}
    /\ \E i \in 1..Len(log) :
         /\ log[i].vote_type \in InvalidVoteTypes
         /\ log[i].raised = "ValueError"
         /\ log[i].post_id = 1 /\ log[i].reply_id = None
         /\ log[i].before # {}
    /\ \E i \in 1..Len(log) :
         /\ log[i].vote_type \in InvalidVoteTypes
         /\ log[i].raised = "ValueError"
         /\ log[i].post_id = 3
    /\ \E i \in 1..Len(log) :
         log[i].vote_type \in InvalidVoteTypes /\ log[i].resp.status = 422

\* what a caller can tell of a response, and of the rows of one target
Told(resp) ==
    [status |-> resp.status, kind |-> resp.kind,
     vote_type |-> IF resp.vote = NoVote THEN "none" ELSE resp.vote.vote_type,
     previous_vote_type |-> resp.previous_vote_type]

Polarities(vs, e) == {v.vote_type : v \in RowsOf(vs, e)}

\* the outcome of cast a followed by cast b, one after the other, by one
\* voter on one target whose row was existing before
SerialOutcome(existing, a, b) ==
    LET vs0 == IF existing = NoVote THEN {} ELSE {existing}
        r1  == create_vote(vs0, nextVoteId, replies, a.user_id, a.vote_type,
                           a.post_id, a.reply_id)
        r2  == create_vote(r1.votes, r1.nextVoteId, replies, b.user_id,
                           b.vote_type, b.post_id, b.reply_id)
    IN  [rows |-> Polarities(r2.votes, a),
         of_a |-> Told(vote_response(r1, a.vote_type)),
         of_b |-> Told(vote_response(r2, b.vote_type))]

\* worker w2 commits its write after worker w did, both having read the
\* voter's row on the target before either wrote
SecondOfInterleaved(w, w2) ==
    /\ w # w2
    /\ vw[w2].pc = "read" /\ vw'[w2].pc = "idle"
    /\ vw[w].pc = "idle" /\ vw[w].attempts = 1
    /\ SameCast(vw[w], vw[w2])
    /\ vw[w].existing = vw[w2].existing
    /\ Polarities(votes, vw[w])
         = Polarities(create_vote_write(IF vw[w].existing = NoVote THEN {}
                                        ELSE {vw[w].existing},
                                        nextVoteId, vw[w].existing,
                                        vw[w].user_id, vw[w].vote_type,
                                        vw[w].post_id, vw[w].reply_id).votes,
                      vw[w])

\* C33: when two casts by one voter on one target interleave (both read
\* before either writes), the rows left on the target and the two results
\* are those of one of the two serial orders of the two casts.
C33_InterleavedCastsSerializable ==
    [][\A w \in Workers, w2 \in Workers :
         SecondOfInterleaved(w, w2) =>
           LET got == [rows |-> Polarities(votes', vw[w]),
                       of_a |-> Told(vw[w].resp),
                       of_b |-> Told(vw'[w2].resp)]
               ab  == SerialOutcome(vw[w].existing, vw[w], vw[w2])
               ba  == SerialOutcome(vw[w].existing, vw[w2], vw[w])
           IN  \/ got = ab
               \/ got = [rows |-> ba.rows, of_a |-> ba.of_b,
                         of_b |-> ba.of_a]]_vars

\* C34: no reply is committed under a parent whose soft delete has already
\* committed: every create that answered 201 with a parent found the parent
\* not deleted in the table it inserted into.
C34_NoReplyUnderDeletedParent ==
    (lastCreate.status = 201 /\ lastCreate.parent_id # None) =>
        ~is_deleted(lastCreate.before[lastCreate.parent_id])

\* C35: with skip 0 and a limit of at least the number of replies the
\* threaded listing of a post holds the same replies as the flat listing,
\* each once: every live reply of the post, also one whose parent has been
\* soft-deleted.
C35_ThreadedSameAsFlat ==
    \A p \in Posts :
        LET flat == get_post_replies(replies, p, 0, Len(replies))
        IN  /\ Elems(Threaded(p)) = Elems(flat)
            /\ Len(Threaded(p)) = Len(flat)
            /\ \A r \in Ids(replies) :
                 (replies[r].post_id = p /\ ~is_deleted(replies[r]))
                   => r \in Elems(Threaded(p))

\* a vote row without its id
Bare(v) == [user_id |-> v.user_id, post_id |-> v.post_id,
            reply_id |-> v.reply_id, vote_type |-> v.vote_type]

\* the route a logged request went through, run on the rows vs
Route(vs, nid, e) ==
    IF e.reply_id = None
    THEN vote_on_post(vs, nid, replies, e.post_id, e.user_id, e.vote_type)
    ELSE vote_on_reply(vs, nid, replies, e.reply_id, e.user_id, e.vote_type)

\* requests a then b as logged leave the rows and give the answers that b
\* then a give from the same rows
Commute(a, b) ==
    LET r1 == Route(a.before, nextVoteId, b)
        r2 == Route(r1.write.votes, r1.write.nextVoteId, a)
    IN  /\ {Bare(v) : v \in r2.write.votes} = {Bare(v) : v \in b.after}
        /\ Told(r1.resp) = Told(b.resp)
        /\ Told(r2.resp) = Told(a.resp)

\* C36: a cast, whatever its outcome, leaves every row of another voter
\* and every row of another target as it was, a vote on post n and a vote
\* on reply n being rows of different targets; two casts in a row by
\* different voters on one target give the same rows and answers in either
\* order.
C36_CastFrame ==
    /\ \A i \in 1..Len(log) :
         LET e == log[i] IN
         /\ e.before \ RowsOf(e.before, e) = e.after \ RowsOf(e.after, e)
         /\ \A v \in e.before :
              (v.user_id # e.user_id \/ v.post_id # e.post_id
                 \/ v.reply_id # e.reply_id) => v \in e.after
    /\ \A i \in 1..(Len(log) - 1) :
         (log[i].user_id # log[i + 1].user_id
            /\ log[i].post_id = log[i + 1].post_id
            /\ log[i].reply_id = log[i + 1].reply_id)
           => Commute(log[i], log[i + 1])

C36_Witness ==
    /\ \E i \in 1..Len(log) :
         /\ log[i].branch = "delete" /\ log[i].raised = ""
         /\ log[i].post_id = 1
         /\ \E v \in log[i].after : v.post_id = 1 /\ v.user_id # log[i].user_id
         /\ \E v \in log[i].after : v.reply_id = 1 /\ v.user_id = log[i].user_id
    /\ \E i \in 1..(Len(log) - 1) :
         /\ log[i].user_id # log[i + 1].user_id
         /\ SameCast([log[i] EXCEPT !.user_id = 0],
                     [log[i + 1] EXCEPT !.user_id = 0])
         /\ log[i].branch = "insert" /\ log[i + 1].branch = "delete"

\* the replies met from reply r by following parent, r first, at most n
RECURSIVE Chain(_, _)
Chain(r, n) ==
    IF n = 0 \/ r \notin Ids(replies) THEN <<>>
    ELSE <<r>> \o Chain(replies[r].parent_id, n - 1)

Forest ==
    \A r \in Ids(replies) :
        /\ replies[r].id = r
        /\ replies[r].parent_id # None =>
             /\ replies[r].parent_id \in Ids(replies)
             /\ replies[r].parent_id < r
             /\ replies[replies[r].parent_id].created_at
                  <= replies[r].created_at
        /\ LET c == Chain(r, Len(replies) + 1)
           IN  /\ Len(c) <= Len(replies)
               /\ Cardinality(Elems(c)) = Len(c)
               /\ replies[c[Len(c)]].parent_id = None
               /\ c = <<r>> \o ancestors(replies, r)

\* C37: in every state the parent pointers form a forest (the parent of a
\* reply, if it has one, is a reply of the table created before it, and the
\* parents followed from any reply end at a root without meeting a reply
\* twice), and no step changes the parent or the post of a reply or removes
\* a row.
C37_ParentsFormForest ==
    /\ []Forest
    /\ [][/\ Len(replies') >= Len(replies)
          /\ \A r \in Ids(replies) :
               /\ replies'[r].parent_id = replies[r].parent_id
               /\ replies'[r].post_id = replies[r].post_id
               /\ replies'[r].id = replies[r].id]_vars

C37_Witness ==
    \E a \in Ids(replies), b \in Ids(replies), c \in Ids(replies) :
        /\ replies[a].parent_id = None
        /\ replies[b].parent_id = a /\ replies[c].parent_id = b
        /\ is_deleted(replies[b]) /\ replies[c].content = "b"
        /\ is_deleted(replies[a]) /\ replies[a].deleted_at = replies[b].deleted_at

\* the ids of a delete request that name a row of the table it found
Named(e) == e.ids \cap Ids(e.before)

AlreadyDeleted(e) == {r \in Named(e) : is_deleted(e.before[r])}

\* C38: a soft-deleted reply stays deleted with the deleted_at it got: no
\* step changes the deleted_at of a deleted reply or removes its row, a
\* delete request on it answers 404 and writes nothing, and a bulk delete
\* naming it leaves its row as it is and counts only the rows that were
\* not deleted before.
C38_SoftDeleteIsPermanent ==
    /\ [](\A i \in 1..Len(log) :
            LET e == log[i] IN
            /\ \A r \in AlreadyDeleted(e) :
                 /\ e.after[r] = e.before[r]
                 /\ e.op = "delete" => (e.status = 404 /\ e.after = e.before)
            /\ e.op = "bulk" =>
                 e.deleted_count = Cardinality(Named(e) \ AlreadyDeleted(e)))
    /\ [](\A r \in Ids(replies) :
            is_deleted(replies[r]) => get_reply_by_id(replies, r) = None)
    /\ [][\A r \in Ids(replies) :
            is_deleted(replies[r]) =>
              /\ r \in Ids(replies')
              /\ replies'[r].deleted_at = replies[r].deleted_at]_vars

C38_Witness ==
    /\ Len(log) = 3
    /\ log[1].op = "delete" /\ log[1].status = 200
    /\ log[2].op = "delete" /\ log[2].ids = log[1].ids /\ log[2].status = 404
    /\ log[3].op = "bulk" /\ log[3].deleted_count = 1
    /\ \E r \in log[1].ids, x \in log[3].ids :
         /\ r \in log[3].ids
         /\ replies[r].deleted_at = log[1].now
         /\ replies[x].deleted_at = log[3].now
         /\ log[1].now < log[2].now /\ log[2].now < log[3].now
         /\ replies[x].content = "b"

====
